---- MODULE Spec2Model ----
(***************************************************************************)
(* Terminal shell of assets/js/terminal.js: session state, command         *)
(* registry, navigation between page sections, input-line history.         *)
(*                                                                         *)
(* A JavaScript string is modelled as a sequence of atoms.  An atom is a   *)
(* whitespace character (" " or "\t") or a run of non-whitespace           *)
(* characters ("cd", "About", "__proto__").  trim, toLowerCase and         *)
(* split(' ') are computed on these sequences the way the built-ins work   *)
(* on characters; a template literal is the concatenation of its parts.    *)
(***************************************************************************)
EXTENDS Integers, Sequences, FiniteSets, TLC

VARIABLES
    currentSection,   \* state.currentSection
    commandHistory,   \* state.commandHistory
    historyIndex,     \* state.historyIndex
    activeSections,   \* ids of .terminal-section elements with class 'active'
    activeLinks,      \* href targets of .nav-link elements with class 'active'
    inputValue,       \* value of #terminal-input
    transcript,       \* children of #output, in document order
    canvasDisplay,    \* style.display of #matrix-bg
    cssProps,         \* inline custom properties of the document element
    hackTimers,       \* pending timeouts of initiateHackingSequence, in due order
    konamiIndex,      \* let konamiIndex: progress through konamiCode
    bodyAnimation,    \* document.body.style.animation
    rainbowTimers,    \* pending timeouts of activateKonamiCode
    posts,            \* per blog entry: classes, injected markup, excerpt display
    darkClass,        \* document.documentElement.classList.contains('dark')
    storedTheme,      \* localStorage.theme, "absent" while the key is not stored
    textContent,      \* elements.typingText.textContent
    typeIndex,        \* let index of initTypingAnimation
    loadTimers,       \* pending timeouts of initTypingAnimation, in due order
    hiddenLines,      \* indices of elements.outputLines with class 'hidden'
    ticking,          \* let ticking of the reading-progress bar
    frames,           \* pending requestAnimationFrame callbacks (updateProgress)
    scrollY,          \* window.scrollY
    progress,         \* scaleX of readingProgress.style.transform
    heard,            \* history variable: how many of the latest keys spell a
                      \* start of konamiCode
    hackLog,          \* history variable: per hack command, the messages delivered
    ev,               \* history variable: the event handled last
    entered,          \* history variable: non-empty lines submitted with Enter
    recall,           \* history variable: arrow keys pressed since the last Enter
    seen              \* history variable: which keys the input handler has handled

vars == <<currentSection, commandHistory, historyIndex, activeSections,
          activeLinks, inputValue, transcript, canvasDisplay, cssProps,
          hackTimers, konamiIndex, bodyAnimation, rainbowTimers, posts,
          darkClass, storedTheme, textContent, typeIndex, loadTimers,
          hiddenLines, ticking, frames, scrollY, progress, heard, hackLog,
          ev, entered, recall, seen>>

----------------------------------------------------------------------------
(* Bounds *)

MaxHistory == 2       \* Enter is accepted while commandHistory is shorter
MaxPendingHacks == 2  \* 'hack' is accepted while fewer hack sequences are running
MaxEggs == 2          \* the Konami sequence completes while fewer easter eggs show
OutputLineCount == 3  \* .output-line elements on the page
MaxInput == 2         \* a key is typed while the input field holds fewer characters
MaxScroll == 2        \* the page scrolls between 0 and this many steps

----------------------------------------------------------------------------
(* The page *)

Sections == {"home", "about", "projects", "blog", "contact"}

\* ids handed to navigateToSection; "nowhere" is an id no element carries
Ids == Sections \cup {"nowhere"}

\* document.getElementById(id) finds an element
getElementById(id) == id \in Sections

\* the lines of #output that are there when the script starts
BootLines == << [cls |-> "output-line", text |-> <<"SYSTEM READY">>] >>

----------------------------------------------------------------------------
(* Strings *)

Whitespace == {" ", "\t"}

\* String.prototype.toLowerCase on one atom
LowerAtom(a) ==
    CASE a = "CD"    -> "cd"
      [] a = "LS"    -> "ls"
      [] a = "Clear" -> "clear"
      [] a = "About" -> "about"
      [] a = "BLOG"  -> "blog"
      [] a = "Amber" -> "amber"
      [] a = "Foo"   -> "foo"
      [] OTHER       -> a

toLowerCase(s) == [i \in 1..Len(s) |-> LowerAtom(s[i])]

RECURSIVE trimStart(_)
trimStart(s) ==
    IF s # <<>> /\ Head(s) \in Whitespace THEN trimStart(Tail(s)) ELSE s

RECURSIVE trimEnd(_)
trimEnd(s) ==
    IF s # <<>> /\ s[Len(s)] \in Whitespace
    THEN trimEnd(SubSeq(s, 1, Len(s) - 1)) ELSE s

\* String.prototype.trim
trim(s) == trimEnd(trimStart(s))

\* String.prototype.split(' '): the pieces between single space characters
RECURSIVE split(_)
split(s) ==
    IF \E i \in 1..Len(s) : s[i] = " "
    THEN LET i == CHOOSE k \in 1..Len(s) :
                      s[k] = " " /\ \A j \in 1..(k - 1) : s[j] # " "
         IN  <<SubSeq(s, 1, i - 1)>> \o split(SubSeq(s, i + 1, Len(s)))
    ELSE <<s>>

\* Array.prototype.join(',') of an array of strings (String(array))
RECURSIVE join(_)
join(a) ==
    IF a = <<>> THEN <<>>
    ELSE IF Len(a) = 1 THEN a[1]
    ELSE a[1] \o <<",">> \o join(Tail(a))

\* String.prototype.includes
includes(s, t) ==
    \E i \in 0..(Len(s) - Len(t)) : SubSeq(s, i + 1, i + Len(t)) = t

IsPrefix(s, t) == Len(s) <= Len(t) /\ SubSeq(t, 1, Len(s)) = s

----------------------------------------------------------------------------
(* The part of the page and of the session the commands act on, as one     *)
(* record, so that a command is a function from record to record.          *)

World ==
    [activeSections |-> activeSections, activeLinks |-> activeLinks,
     currentSection |-> currentSection, transcript |-> transcript,
     canvasDisplay |-> canvasDisplay, cssProps |-> cssProps,
     hackTimers |-> hackTimers, konamiIndex |-> konamiIndex,
     bodyAnimation |-> bodyAnimation, rainbowTimers |-> rainbowTimers,
     posts |-> posts]

\* href targets of the .nav-link elements (elements.navLinks)
NavLinks == Sections

\* navigateToSection without the loop that hides the other sections
navigateToSection_keepsOthers(w, sectionId) ==
    IF getElementById(sectionId)
    THEN [w EXCEPT
            !.activeSections = @ \cup {sectionId},
            !.currentSection = sectionId,
            !.activeLinks = {l \in NavLinks : l = sectionId}]
    ELSE w

\* navigateToSection that goes back to home when the section asked for is
\* the current one
navigateToSection_backHome(w, sectionId) ==
    LET hidden == [w EXCEPT !.activeSections = @ \ Sections]
        target == IF sectionId = w.currentSection THEN "home" ELSE sectionId
    IN  IF getElementById(sectionId)
        THEN [hidden EXCEPT
                !.activeSections = @ \cup {target},
                !.currentSection = target,
                !.activeLinks = {l \in NavLinks : l = target}]
        ELSE hidden

\* function navigateToSection(sectionId)
navigateToSection(w, sectionId) ==
    LET hidden == [w EXCEPT !.activeSections = @ \ Sections]
    IN  IF getElementById(sectionId)
        THEN [hidden EXCEPT
                !.activeSections = @ \cup {sectionId},
                !.currentSection = sectionId,
                !.activeLinks = {l \in NavLinks : l = sectionId}]
        ELSE hidden

\* function displayOutput(text)
displayOutput(w, text) ==
    [w EXCEPT !.transcript =
        Append(@, [cls |-> "terminal-output-line", text |-> text])]

IsCommandOutput(line) == line.cls = "terminal-output-line"
IsBootLine(line) == line.cls # "terminal-output-line"

\* output.querySelectorAll('.terminal-output-line').forEach(line => line.remove())
removeCommandOutputs(w) ==
    [w EXCEPT !.transcript = SelectSeq(@, IsBootLine)]

\* toggleMatrixEffect that can only hide the canvas
toggleMatrixEffect_hideOnly(w) ==
    [w EXCEPT !.canvasDisplay = "none"]

\* function toggleMatrixEffect()
toggleMatrixEffect(w) ==
    [w EXCEPT !.canvasDisplay = IF @ = "none" THEN "block" ELSE "none"]

\* the themes table of changeTheme
themes ==
    [default |-> [text |-> "#00ff41", accent |-> "#00d9ff", bg |-> "#0a0e27"],
     amber   |-> [text |-> "#ffb000", accent |-> "#ff6b00", bg |-> "#1a0f00"],
     ice     |-> [text |-> "#00ffff", accent |-> "#0080ff", bg |-> "#000033"]]

ThemeNames == {"default", "amber", "ice"}

\* property names every object literal inherits from Object.prototype and
\* that toLowerCase leaves as they are
InheritedNames == {"constructor", "__proto__"}

\* function changeTheme(theme): themes[theme] || themes.default, then one
\* setProperty per own entry of the selected object
changeTheme(w, theme) ==
    IF Len(theme) = 1 /\ theme[1] \in ThemeNames
    THEN [w EXCEPT !.cssProps = themes[theme[1]]]
    ELSE IF Len(theme) = 1 /\ theme[1] \in InheritedNames
    THEN w
    ELSE [w EXCEPT !.cssProps = themes["default"]]

HackMessages ==
    << <<"ACCESSING MAINFRAME...">>, <<"BYPASSING FIREWALL...">>,
       <<"INJECTING PAYLOAD...">>, <<"EXTRACTING DATA...">>,
       <<"HACK COMPLETE! Just kidding :)">> >>

\* A pending timeout is the index of its message.  The timeouts of one
\* call are due 0, 1, 2, 3 and 4 seconds after the call, so among the
\* pending timeouts those with delay 0 come first, and every running call
\* has one timeout due in each later second: the new call's timeout for
\* message i + 1 is due after one more timeout of every other running call.
IsLastMessage(i) == i = Len(HackMessages)

\* the calls of initiateHackingSequence that still have a timeout pending
PendingHacks(timers) == Len(SelectSeq(timers, IsLastMessage))

\* the pending timeouts with delay 0
RECURSIVE Due(_)
Due(timers) ==
    IF timers # <<>> /\ Head(timers) = 1 THEN <<1>> \o Due(Tail(timers)) ELSE <<>>

\* the timeouts i, i + 1, ... of a new call among the ones due later
RECURSIVE schedule(_, _)
schedule(later, i) ==
    IF i > Len(HackMessages) THEN later
    ELSE LET round == PendingHacks(later)
         IN  <<i>> \o SubSeq(later, 1, round) \o
             schedule(SubSeq(later, round + 1, Len(later)), i + 1)

\* initiateHackingSequence that schedules no timeout for the first message
initiateHackingSequence_skipsFirst(w) ==
    LET due == Due(w.hackTimers)
    IN  [w EXCEPT !.hackTimers =
            due \o schedule(SubSeq(@, Len(due) + 1, Len(@)), 2)]

\* function initiateHackingSequence(): one timeout per message, message
\* number index + 1 after index * 1000 ms
initiateHackingSequence(w) ==
    LET due == Due(w.hackTimers)
    IN  [w EXCEPT !.hackTimers =
            due \o schedule(SubSeq(@, Len(due) + 1, Len(@)), 1)]

konamiCode ==
    <<"ArrowUp", "ArrowUp", "ArrowDown", "ArrowDown", "ArrowLeft",
      "ArrowRight", "ArrowLeft", "ArrowRight", "b", "a">>

KonamiText == <<"KONAMI CODE ACTIVATED! You unlocked the secret mode!">>
RainbowAnimation == "rainbow 2s linear infinite"

\* function activateKonamiCode(): the message, the animation, and one
\* timeout that will clear the animation and remove the style element
activateKonamiCode(w) ==
    [displayOutput(w, KonamiText) EXCEPT
        !.bodyAnimation = RainbowAnimation,
        !.rainbowTimers = @ + 1]

\* the Konami listener that keeps the progress made when a key is wrong
konamiKeyDown_keepsProgress(w, key) ==
    IF key = konamiCode[w.konamiIndex + 1]
    THEN IF w.konamiIndex + 1 = Len(konamiCode)
         THEN [activateKonamiCode(w) EXCEPT !.konamiIndex = 0]
         ELSE [w EXCEPT !.konamiIndex = @ + 1]
    ELSE w

\* the keydown listener of the Konami code
konamiKeyDown(w, key) ==
    IF key = konamiCode[w.konamiIndex + 1]
    THEN IF w.konamiIndex + 1 = Len(konamiCode)
         THEN [activateKonamiCode(w) EXCEPT !.konamiIndex = 0]
         ELSE [w EXCEPT !.konamiIndex = @ + 1]
    ELSE [w EXCEPT !.konamiIndex = 0]

\* the timeout of activateKonamiCode fires
rainbowTimeout(w) ==
    [w EXCEPT !.bodyAnimation = "", !.rainbowTimers = @ - 1]

IsKonamiLine(line) == line.text = KonamiText

\* how many of the latest keys spell a start of konamiCode, when m of the
\* keys before key did
Spelled(m, key) ==
    LET latest == SubSeq(konamiCode, 1, m) \o <<key>>
        Starts(k) == k <= Len(latest) /\
                     SubSeq(latest, Len(latest) - k + 1, Len(latest)) =
                         SubSeq(konamiCode, 1, k)
    IN  CHOOSE k \in 0..Len(konamiCode) :
            Starts(k) /\ \A j \in (k + 1)..Len(konamiCode) : ~Starts(j)

\* the key completes the Konami sequence
CompletesKonami(w, key) ==
    w.konamiIndex + 1 = Len(konamiCode) /\ key = konamiCode[Len(konamiCode)]

\* room for one more easter egg
EggRoom(w) ==
    /\ w.rainbowTimers < MaxEggs
    /\ Len(SelectSeq(w.transcript, IsKonamiLine)) < MaxEggs

----------------------------------------------------------------------------
(* The dark-mode preference (site utilities)                               *)

Page == [darkClass |-> darkClass, storedTheme |-> storedTheme]

\* the click listener of .theme-toggle without the writes to localStorage
themeToggleClick_classOnly(page) == [page EXCEPT !.darkClass = ~@]

\* the click listener of .theme-toggle
themeToggleClick(page) ==
    IF page.darkClass
    THEN [darkClass |-> FALSE, storedTheme |-> "light"]
    ELSE [darkClass |-> TRUE, storedTheme |-> "dark"]

\* the change listener of prefersDark; matches is e.matches
prefersDarkChange(page, matches) ==
    IF page.storedTheme = "absent"
    THEN [page EXCEPT !.darkClass = matches]
    ELSE page

----------------------------------------------------------------------------
(* The reading-progress bar (site utilities)                               *)

Reading ==
    [ticking |-> ticking, frames |-> frames, scrollY |-> scrollY,
     progress |-> progress]

\* document.documentElement.scrollHeight - window.innerHeight
scrollHeight == MaxScroll

\* readingProgress.style.transform: none set yet, or scaleX(num / den)
NoTransform == [set |-> FALSE, num |-> 0, den |-> 1]
ScaleX(num, den) == [set |-> TRUE, num |-> num, den |-> den]

\* function updateProgress(), run by the animation frame
updateProgress(r) ==
    [r EXCEPT
        !.progress = IF scrollHeight > 0 THEN ScaleX(r.scrollY, scrollHeight)
                     ELSE ScaleX(0, 1),
        !.ticking = FALSE,
        !.frames = @ - 1]

\* the scroll listener without the test of ticking
scrollListener_unthrottled(r) ==
    [r EXCEPT !.frames = @ + 1, !.ticking = TRUE]

\* the scroll listener of window
scrollListener(r) ==
    IF ~r.ticking
    THEN [r EXCEPT !.frames = @ + 1, !.ticking = TRUE]
    ELSE r

----------------------------------------------------------------------------
(* The load animation (initTypingAnimation)                                *)

\* elements.typingText.dataset.text, character by character
dataText == <<"H", "e", "l", "l", "o">>

\* the indices forEach hands out for elements.outputLines
outputLines == 0..(OutputLineCount - 1)

Load ==
    [textContent |-> textContent, typeIndex |-> typeIndex,
     loadTimers |-> loadTimers, hiddenLines |-> hiddenLines]

\* a pending timeout: the callback, and the line it is for (-1: none)
Timeout(fn, line) == [fn |-> fn, line |-> line]

\* type() showing two more characters per call
type_twoPerTick(l) ==
    IF l.typeIndex < Len(dataText)
    THEN [l EXCEPT
            !.textContent = SubSeq(dataText, 1, l.typeIndex + 2),
            !.typeIndex = @ + 2,
            !.loadTimers = Tail(@) \o <<Timeout("type", -1)>>]
    ELSE [l EXCEPT !.loadTimers = Tail(@) \o <<Timeout("reveal", -1)>>]

\* function type(), run by the timeout at the head of the queue
type(l) ==
    IF l.typeIndex < Len(dataText)
    THEN [l EXCEPT
            !.textContent = SubSeq(dataText, 1, l.typeIndex + 1),
            !.typeIndex = @ + 1,
            !.loadTimers = Tail(@) \o <<Timeout("type", -1)>>]
    ELSE [l EXCEPT !.loadTimers = Tail(@) \o <<Timeout("reveal", -1)>>]

\* the 200 ms timeout: one timeout per output line, line i due after i * 500 ms
reveal(l) ==
    [l EXCEPT !.loadTimers =
        Tail(@) \o [k \in 1..OutputLineCount |-> Timeout("show", k - 1)]]

\* the timeout of one output line: line.classList.remove('hidden')
show(l) ==
    [l EXCEPT !.hiddenLines = @ \ {Head(l.loadTimers).line},
              !.loadTimers = Tail(@)]

----------------------------------------------------------------------------
(* The command registry (setupTerminalCommands)                            *)

CommandNames ==
    {"help", "ls", "cd", "clear", "cls", "whoami", "skills", "contact",
     "matrix", "theme", "hack"}

\* what a call returns: threw = an exception left the call; type is the
\* JavaScript type of the returned value; val is String(value)
StringResult(v) == [threw |-> FALSE, type |-> "string", val |-> v]
ArrayResult(a)  == [threw |-> FALSE, type |-> "array", val |-> join(a)]
Thrown          == [threw |-> TRUE, type |-> "none", val |-> <<>>]
NoResult        == [threw |-> FALSE, type |-> "none", val |-> <<>>]

HelpText   == <<"Available commands: help ls cd clear whoami skills contact matrix theme hack">>
LsText     == <<"home/  about/  projects/  blog/  contact/">>
WhoamiText == <<"Lev Kozhokaru - Software Engineer | Dev Tools Creator | AI Integration Specialist">>
SkillsText == <<"Languages: JavaScript, Python, TypeScript ...">>
ContactText == <<"GitHub: https://github.com/kozhokaru LinkedIn: https://linkedin.com/in/levkoz">>
MatrixText == <<"Matrix effect toggled">>
HackText   == <<"INITIATING HACK SEQUENCE...">>
NoSuchDirectory == <<"No such directory">>

\* args[0] inside a template literal: `${undefined}` reads "undefined"
Interpolate(args) == IF args = <<>> THEN <<"undefined">> ELSE args[1]

\* commands.cd that reports the navigation without performing it
commands_cd_reportsOnly(w, args) ==
    IF args # <<>> /\ Len(args[1]) = 1 /\ args[1][1] \in Sections
    THEN [w   |-> w,
          res |-> StringResult(<<"Navigating to ">> \o args[1] \o <<"...">>)]
    ELSE [w   |-> w,
          res |-> StringResult(<<"Error: ">> \o Interpolate(args) \o <<": ">> \o NoSuchDirectory)]

\* commands.cd
commands_cd(w, args) ==
    IF args # <<>> /\ Len(args[1]) = 1 /\ args[1][1] \in Sections
    THEN [w   |-> navigateToSection(w, args[1][1]),
          res |-> StringResult(<<"Navigating to ">> \o args[1] \o <<"...">>)]
    ELSE [w   |-> w,
          res |-> StringResult(<<"Error: ">> \o Interpolate(args) \o <<": ">> \o NoSuchDirectory)]

\* commands.clear
commands_clear(w, args) ==
    [w |-> removeCommandOutputs(w), res |-> StringResult(<<>>)]

\* commands.cls
commands_cls(w, args) == commands_clear(w, args)

\* commands.matrix
commands_matrix(w, args) ==
    [w |-> toggleMatrixEffect(w), res |-> StringResult(MatrixText)]

\* commands.theme: args[0] || 'default'
commands_theme(w, args) ==
    LET theme == IF args = <<>> \/ args[1] = <<>> THEN <<"default">> ELSE args[1]
    IN  [w   |-> changeTheme(w, theme),
         res |-> StringResult(<<"Theme changed to: ">> \o theme)]

\* commands.hack
commands_hack(w, args) ==
    [w |-> initiateHackingSequence(w), res |-> StringResult(HackText)]

\* commands[name](args) for an own key of the registry
invoke(name, w, args) ==
    CASE name = "help"    -> [w |-> w, res |-> StringResult(HelpText)]
      [] name = "ls"      -> [w |-> w, res |-> StringResult(LsText)]
      [] name = "cd"      -> commands_cd(w, args)
      [] name = "clear"   -> commands_clear(w, args)
      [] name = "cls"     -> commands_cls(w, args)
      [] name = "whoami"  -> [w |-> w, res |-> StringResult(WhoamiText)]
      [] name = "skills"  -> [w |-> w, res |-> StringResult(SkillsText)]
      [] name = "contact" -> [w |-> w, res |-> StringResult(ContactText)]
      [] name = "matrix"  -> commands_matrix(w, args)
      [] name = "theme"   -> commands_theme(w, args)
      [] name = "hack"    -> commands_hack(w, args)

NotFound(cmd) ==
    <<"Command not found: ">> \o cmd \o <<". Type 'help' for available commands.">>

\* the first token of the line and the rest, as executeCommand destructures them
Tokens(input) == split(toLowerCase(trim(input)))
CmdOf(input)  == Head(Tokens(input))
ArgsOf(input) == Tail(Tokens(input))

\* window.executeCommand(input).  commands is an object literal, so
\* commands[cmd] also finds what Object.prototype provides:
\* commands['constructor'] is the function Object, which returns the array
\* it is given; commands['__proto__'] is an object that is not callable.
executeCommand(w, input) ==
    LET cmd  == CmdOf(input)
        args == ArgsOf(input)
    IN  IF Len(cmd) = 1 /\ cmd[1] \in CommandNames
        THEN invoke(cmd[1], w, args)
        ELSE IF cmd = <<"constructor">>
        THEN [w |-> w, res |-> ArrayResult(args)]
        ELSE IF cmd = <<"__proto__">>
        THEN [w |-> w, res |-> Thrown]
        ELSE [w |-> w, res |-> StringResult(NotFound(cmd))]

----------------------------------------------------------------------------
(* Blog entries (window.toggleBlogPost)                                    *)

\* the keys of blogPosts
BlogPosts == {"readable-code", "performant-web", "simplicity-design"}

\* the data-post values of the blog entries of the page
BlogEntries == BlogPosts

\* blogPosts[postId].content
blogPosts == [p \in BlogPosts |-> [content |-> <<"content of ", p>>]]

\* an entry as the page shows it first: the content block collapsed and
\* empty, the excerpt as the style sheet shows it
CollapsedPost ==
    [entryClasses |-> {}, contentClasses |-> {"collapsed"},
     innerHTML |-> <<>>, excerptDisplay |-> ""]

\* the template literal assigned to content.innerHTML
PostMarkup(content) ==
    <<"<pre class=blog-post-content>">> \o content \o
    <<"</pre>", "<div class=blog-post-footer>[Click title to collapse]</div>">>

\* toggleBlogPost that leaves the excerpt as it is when it expands
toggleBlogPost_keepsExcerpt(w, postId) ==
    IF postId \notin BlogEntries
    THEN [w |-> w, res |-> Thrown]
    ELSE LET post == w.posts[postId]
             opened == [post EXCEPT
                          !.entryClasses = @ \cup {"expanded"},
                          !.contentClasses = (@ \ {"collapsed"}) \cup {"expanded"}]
         IN  IF "expanded" \in post.contentClasses
             THEN [w   |-> [w EXCEPT !.posts[postId] =
                              [entryClasses   |-> post.entryClasses \ {"expanded"},
                               contentClasses |-> (post.contentClasses \ {"expanded"})
                                                  \cup {"collapsed"},
                               innerHTML      |-> <<>>,
                               excerptDisplay |-> "block"]],
                   res |-> NoResult]
             ELSE IF postId \in BlogPosts
             THEN [w   |-> [w EXCEPT !.posts[postId] =
                              [opened EXCEPT
                                 !.innerHTML = PostMarkup(blogPosts[postId].content)]],
                   res |-> NoResult]
             ELSE [w |-> [w EXCEPT !.posts[postId] = opened], res |-> Thrown]

\* window.toggleBlogPost(postId).  querySelector returns null when no
\* entry carries the id, and entry.querySelector then throws; for an entry
\* whose id is no key of blogPosts, reading .content of undefined throws
\* after the classes have been changed.
toggleBlogPost(w, postId) ==
    IF postId \notin BlogEntries
    THEN [w |-> w, res |-> Thrown]
    ELSE LET post == w.posts[postId]
             opened == [post EXCEPT
                          !.entryClasses = @ \cup {"expanded"},
                          !.contentClasses = (@ \ {"collapsed"}) \cup {"expanded"}]
         IN  IF "expanded" \in post.contentClasses
             THEN [w   |-> [w EXCEPT !.posts[postId] =
                              [entryClasses   |-> post.entryClasses \ {"expanded"},
                               contentClasses |-> (post.contentClasses \ {"expanded"})
                                                  \cup {"collapsed"},
                               innerHTML      |-> <<>>,
                               excerptDisplay |-> "block"]],
                   res |-> NoResult]
             ELSE IF postId \in BlogPosts
             THEN [w   |-> [w EXCEPT !.posts[postId] =
                              [opened EXCEPT
                                 !.innerHTML = PostMarkup(blogPosts[postId].content),
                                 !.excerptDisplay = "none"]],
                   res |-> NoResult]
             ELSE [w |-> [w EXCEPT !.posts[postId] = opened], res |-> Thrown]

----------------------------------------------------------------------------
(* The input handler (handleTerminalInput)                                 *)

Session ==
    [commandHistory |-> commandHistory, historyIndex |-> historyIndex,
     inputValue |-> inputValue]

\* String.prototype.length
RECURSIVE Length(_)
Length(s) == IF s = <<>> THEN 0 ELSE Len(Head(s)) + Length(Tail(s))

\* the value of the input field after the character of a key is inserted
\* at its end (the default action of a keydown nobody prevents)
typeChar(value, key) ==
    IF key \in Whitespace \/ value = <<>> \/ value[Len(value)] \in Whitespace
    THEN Append(value, key)
    ELSE [value EXCEPT ![Len(value)] = @ \o key]

\* array[i] with a JavaScript (0-based) index; assigning undefined to the
\* value of an input element stores the text "undefined"
ArrayAt(a, i) == IF i \in 0..(Len(a) - 1) THEN a[i + 1] ELSE <<"undefined">>

\* unshift in place of push: the new entry goes to the front
push_front(history, input) == <<input>> \o history

\* state.commandHistory.push(input)
push(history, input) == Append(history, input)

\* the Enter branch, after executeCommand has returned normally
handleEnter(s, input) ==
    LET h == push(s.commandHistory, input)
    IN  [commandHistory |-> h, historyIndex |-> Len(h), inputValue |-> <<>>]

\* the ArrowUp branch with the guard historyIndex >= 0
handleArrowUp_offByOne(s) ==
    IF s.historyIndex >= 0
    THEN [s EXCEPT !.historyIndex = @ - 1,
                   !.inputValue = ArrayAt(s.commandHistory, s.historyIndex - 1)]
    ELSE s

\* the ArrowUp branch
handleArrowUp(s) ==
    IF s.historyIndex > 0
    THEN [s EXCEPT !.historyIndex = @ - 1,
                   !.inputValue = ArrayAt(s.commandHistory, s.historyIndex - 1)]
    ELSE s

\* the ArrowDown branch with the guard historyIndex < commandHistory.length
handleArrowDown_pastEnd(s) ==
    IF s.historyIndex < Len(s.commandHistory)
    THEN [s EXCEPT !.historyIndex = @ + 1,
                   !.inputValue = ArrayAt(s.commandHistory, s.historyIndex + 1)]
    ELSE [s EXCEPT !.historyIndex = Len(s.commandHistory),
                   !.inputValue = <<>>]

\* the ArrowDown branch
handleArrowDown(s) ==
    IF s.historyIndex < Len(s.commandHistory) - 1
    THEN [s EXCEPT !.historyIndex = @ + 1,
                   !.inputValue = ArrayAt(s.commandHistory, s.historyIndex + 1)]
    ELSE [s EXCEPT !.historyIndex = Len(s.commandHistory),
                   !.inputValue = <<>>]

\* the switch of the digit keys with a case that names no section
DigitTarget_offPage(key) ==
    CASE key = "1" -> "home" [] key = "2" -> "about" [] key = "3" -> "projects"
      [] key = "4" -> "blog" [] key = "5" -> "nowhere"

\* the switch of the digit keys in the keydown listener of
\* setupKeyboardShortcuts
DigitTarget(key) ==
    CASE key = "1" -> "home" [] key = "2" -> "about" [] key = "3" -> "projects"
      [] key = "4" -> "blog" [] key = "5" -> "contact"

\* the listener without the test of ctrlKey, metaKey and altKey around the
\* switch of the digit keys
documentKeyDown_anyModifier(w, e) ==
    LET w1 == IF e.key = "Escape" THEN navigateToSection(w, "home") ELSE w
        w2 == IF e.ctrlKey /\ e.key = "l" THEN removeCommandOutputs(w1) ELSE w1
    IN  IF e.key \in {"1", "2", "3", "4", "5"}
        THEN navigateToSection(w2, DigitTarget(e.key))
        ELSE w2

\* document keydown listener of setupKeyboardShortcuts
documentKeyDown(w, e) ==
    LET w1 == IF e.key = "Escape" THEN navigateToSection(w, "home") ELSE w
        w2 == IF e.ctrlKey /\ e.key = "l" THEN removeCommandOutputs(w1) ELSE w1
    IN  IF ~e.ctrlKey /\ ~e.metaKey /\ ~e.altKey /\ e.key \in {"1", "2", "3", "4", "5"}
        THEN navigateToSection(w2, DigitTarget(e.key))
        ELSE w2

\* the id the listener hands to navigateToSection, "none" when it does not call it
documentKeyNav(e) ==
    IF e.key = "Escape" THEN "home"
    ELSE IF ~e.ctrlKey /\ ~e.metaKey /\ ~e.altKey /\ e.key \in {"1", "2", "3", "4", "5"}
    THEN DigitTarget(e.key)
    ELSE "none"

----------------------------------------------------------------------------
(* Inputs *)

\* lines the user types into #terminal-input
TypedLines ==
    { <<"cd", " ", "about">>, <<"clear">>, <<"theme", " ", "amber">>, <<" ">> }

\* lines typed when only the input handler is exercised
ShellLines ==
    { <<"ls">>, <<"cd", " ", "about">>, <<"cd", " ", "nowhere">>,
      <<"clear">>, <<"cls">>, <<"__proto__">>, <<"constructor">>,
      <<"matrix">>, <<" ", "Foo">>, <<" ">> }

\* lines typed when every kind of event is exercised together
EventLines ==
    { <<"clear">>, <<"hack">>, <<"theme", " ", "amber">> }

\* lines handed to window.executeCommand directly
CallLines ==
    TypedLines \cup ShellLines \cup EventLines \cup
    { <<>>, <<"help">>, <<"cd", " ", "About">>, <<"LS">>, <<" ", "ls", " ">>, <<"cd">>,
      <<"CD", " ", "BLOG">>, <<"cd", " ", "home">>, <<"cd", " ", "projects">>,
      <<"cd", " ", "contact">>, <<"cd", " ", " ", "about">>,
      <<"cd", "\t", "about">>, <<"cd", " ", "constructor">>,
      <<"theme", " ", "constructor">>,
      <<"cls">>, <<"Clear">>, <<"whoami">>, <<"skills">>, <<"contact">>,
      <<"matrix">>, <<"theme">>, <<"theme", " ", "Amber">>,
      <<"theme", " ", "ice">>, <<"theme", " ", "foo">>,
      <<"Foo">>, <<"foo", " ", "about">>, <<"constructor">>,
      <<"constructor", " ", "about", " ", "blog">>,
      <<"__proto__", " ", "about">> }

\* character keys pressed one by one while the input field has the focus
KeyChars == {"a", "2", " "}

\* the keydown event of a key pressed without modifiers
PlainKey(k) == [key |-> k, ctrlKey |-> FALSE, metaKey |-> FALSE, altKey |-> FALSE]

\* href targets of the a[href^="#"] elements that are not nav links; the
\* markup is not part of the script, its links name sections of the page
AnchorTargets == {"blog", "contact"}

\* data-action values of the quick-access buttons
QuickActions == {"about", "projects"}

\* keydown events that reach the document listener
DocumentKeys ==
    { [key |-> k, ctrlKey |-> FALSE, metaKey |-> FALSE, altKey |-> FALSE] :
        k \in {"Escape", "1", "2", "3", "4", "5"} }
    \cup { [key |-> "l", ctrlKey |-> TRUE, metaKey |-> FALSE, altKey |-> FALSE],
           [key |-> "k", ctrlKey |-> TRUE, metaKey |-> FALSE, altKey |-> FALSE],
           [key |-> "2", ctrlKey |-> TRUE, metaKey |-> FALSE, altKey |-> FALSE],
           [key |-> "3", ctrlKey |-> FALSE, metaKey |-> TRUE, altKey |-> FALSE],
           [key |-> "4", ctrlKey |-> FALSE, metaKey |-> FALSE, altKey |-> TRUE] }

----------------------------------------------------------------------------
(* Initial state: the state object and the page as the script finds them   *)

FreshRecall  == [ok |-> TRUE, ups |-> 0, downs |-> 0]
BrokenRecall == [ok |-> FALSE, ups |-> 0, downs |-> 0]

Event(op, id, input, res) == [op |-> op, id |-> id, input |-> input, res |-> res]

Init ==
    /\ currentSection = "home"
    /\ commandHistory = <<>>
    /\ historyIndex = -1
    /\ activeSections = {"home"}
    /\ activeLinks = {"home"}
    /\ inputValue = <<>>
    /\ transcript = BootLines
    /\ canvasDisplay = ""
    /\ cssProps = [text |-> "", accent |-> "", bg |-> ""]
    /\ hackTimers = <<>>
    /\ konamiIndex = 0
    /\ bodyAnimation = ""
    /\ rainbowTimers = 0
    /\ posts = [p \in BlogEntries |-> CollapsedPost]
    /\ darkClass = FALSE
    /\ storedTheme = "absent"
    /\ textContent = <<>>
    /\ typeIndex = 0
    /\ loadTimers = <<Timeout("type", -1)>>
    /\ hiddenLines = outputLines
    /\ ticking = FALSE
    /\ frames = 0
    /\ scrollY = 0
    /\ progress = NoTransform
    /\ heard = 0
    /\ hackLog = <<>>
    /\ ev = Event("init", "none", <<>>, NoResult)
    /\ entered = <<>>
    /\ recall = FreshRecall
    /\ seen = [enter |-> FALSE, down |-> FALSE]

SetWorld(w) ==
    /\ activeSections' = w.activeSections
    /\ activeLinks' = w.activeLinks
    /\ currentSection' = w.currentSection
    /\ transcript' = w.transcript
    /\ canvasDisplay' = w.canvasDisplay
    /\ cssProps' = w.cssProps
    /\ hackTimers' = w.hackTimers
    /\ konamiIndex' = w.konamiIndex
    /\ bodyAnimation' = w.bodyAnimation
    /\ rainbowTimers' = w.rainbowTimers
    /\ posts' = w.posts

SetSession(s) ==
    /\ commandHistory' = s.commandHistory
    /\ historyIndex' = s.historyIndex
    /\ inputValue' = s.inputValue

worldVars == <<activeSections, activeLinks, currentSection, transcript,
               canvasDisplay, cssProps, hackTimers, konamiIndex,
               bodyAnimation, rainbowTimers, posts>>
sessionVars == <<commandHistory, historyIndex, inputValue>>
inputGhosts == <<entered, recall, seen>>
hackGhosts == <<hackLog>>

\* what no handler of the terminal shell touches: the dark-mode flag, the
\* state of the load animation and the reading-progress bar
ambientVars == <<darkClass, storedTheme, textContent, typeIndex, loadTimers,
                 hiddenLines, ticking, frames, scrollY, progress>>

----------------------------------------------------------------------------
(* Events *)

\* the user types a line into the input field.  Each keydown also reaches
\* the document listeners; none of the keys of these lines is a shortcut,
\* and the first of them is not a key of konamiCode, so the Konami
\* listener is back at zero when the line stands.
TypeInput(line) ==
    /\ UNCHANGED ambientVars
    /\ inputValue' = line
    /\ recall' = IF recall.ups + recall.downs > 0 THEN BrokenRecall ELSE recall
    /\ ev' = Event("type", "none", line, NoResult)
    /\ SetWorld([World EXCEPT !.konamiIndex = 0])
    /\ heard' = 0
    /\ UNCHANGED <<commandHistory, historyIndex, entered, seen>>
    /\ UNCHANGED hackGhosts

\* keydown of a character key in the input field: handleTerminalInput has
\* no branch for it and the character goes into the field; the event bubbles
\* to the listener of setupKeyboardShortcuts and to the Konami listener
KeyChar(k) ==
    /\ UNCHANGED ambientVars
    /\ Length(inputValue) < MaxInput
    /\ CompletesKonami(World, k) => EggRoom(World)
    /\ inputValue' = typeChar(inputValue, k)
    /\ recall' = IF recall.ups + recall.downs > 0 THEN BrokenRecall ELSE recall
    /\ SetWorld(konamiKeyDown(documentKeyDown(World, PlainKey(k)), k))
    /\ heard' = Spelled(heard, k)
    /\ ev' = Event("key", documentKeyNav(PlainKey(k)), <<k>>, NoResult)
    /\ UNCHANGED <<commandHistory, historyIndex, entered, seen>>
    /\ UNCHANGED hackGhosts

\* keydown Enter in the input field: handleTerminalInput, then the
\* listeners of the document, which run also when the first one threw
KeyEnter ==
    LET input == trim(inputValue)
        r == executeCommand(World, input)
    IN  /\ UNCHANGED ambientVars
        /\ heard' = Spelled(heard, "Enter")
        /\ seen' = [seen EXCEPT !.enter = TRUE]
        /\ IF input = <<>>
           THEN /\ ev' = Event("Enter", "none", input, NoResult)
                /\ UNCHANGED <<entered, recall>>
                /\ UNCHANGED sessionVars
                /\ UNCHANGED hackGhosts
                /\ SetWorld(konamiKeyDown(World, "Enter"))
           ELSE /\ Len(entered) < MaxHistory
                /\ CmdOf(input) = <<"hack">> =>
                       PendingHacks(hackTimers) < MaxPendingHacks
                /\ entered' = Append(entered, input)
                /\ recall' = FreshRecall
                /\ ev' = Event("Enter", "none", input, r.res)
                /\ hackLog' = IF CmdOf(input) = <<"hack">>
                              THEN Append(hackLog, <<>>) ELSE hackLog
                /\ IF r.res.threw
                   THEN /\ UNCHANGED sessionVars
                        /\ SetWorld(konamiKeyDown(World, "Enter"))
                   ELSE /\ SetWorld(konamiKeyDown(displayOutput(r.w, r.res.val), "Enter"))
                        /\ SetSession(handleEnter(Session, input))

\* keydown ArrowUp in the input field
KeyArrowUp ==
    /\ UNCHANGED ambientVars
    /\ SetSession(handleArrowUp(Session))
    /\ recall' = IF ~recall.ok \/ recall.downs > 0 THEN BrokenRecall
                 ELSE IF recall.ups < Len(entered)
                 THEN [recall EXCEPT !.ups = @ + 1]
                 ELSE recall
    /\ ev' = Event("ArrowUp", "none", <<>>, NoResult)
    /\ SetWorld(konamiKeyDown(World, "ArrowUp"))
    /\ heard' = Spelled(heard, "ArrowUp")
    /\ UNCHANGED <<entered, seen>>
    /\ UNCHANGED hackGhosts

\* keydown ArrowDown in the input field
KeyArrowDown ==
    /\ UNCHANGED ambientVars
    /\ SetSession(handleArrowDown(Session))
    /\ recall' = IF /\ recall.ok
                    /\ Len(entered) >= 1
                    /\ recall.ups = Len(entered)
                    /\ recall.downs < Len(entered)
                 THEN [recall EXCEPT !.downs = @ + 1]
                 ELSE BrokenRecall
    /\ seen' = [seen EXCEPT !.down = TRUE]
    /\ ev' = Event("ArrowDown", "none", <<>>, NoResult)
    /\ SetWorld(konamiKeyDown(World, "ArrowDown"))
    /\ heard' = Spelled(heard, "ArrowDown")
    /\ UNCHANGED entered
    /\ UNCHANGED hackGhosts

\* click on a nav link: the listener of setupEventListeners, then the
\* listener setupNavigation put on every a[href^="#"]
NavLinkClick(target) ==
    /\ UNCHANGED ambientVars
    /\ UNCHANGED heard
    /\ SetWorld(navigateToSection(navigateToSection(World, target), target))
    /\ ev' = Event("navLink", target, <<>>, NoResult)
    /\ UNCHANGED sessionVars
    /\ UNCHANGED inputGhosts
    /\ UNCHANGED hackGhosts

\* click on another a[href^="#"] (setupNavigation)
AnchorClick(target) ==
    /\ UNCHANGED ambientVars
    /\ UNCHANGED heard
    /\ SetWorld(navigateToSection(World, target))
    /\ ev' = Event("anchor", target, <<>>, NoResult)
    /\ UNCHANGED sessionVars
    /\ UNCHANGED inputGhosts
    /\ UNCHANGED hackGhosts

\* click on a quick-access button (setupQuickAccess)
QuickButtonClick(action) ==
    /\ UNCHANGED ambientVars
    /\ UNCHANGED heard
    /\ SetWorld(navigateToSection(World, action))
    /\ ev' = Event("quickButton", action, <<>>, NoResult)
    /\ UNCHANGED sessionVars
    /\ UNCHANGED inputGhosts
    /\ UNCHANGED hackGhosts

\* keydown outside the input field: the listener of
\* setupKeyboardShortcuts, then the Konami listener
DocumentKeyDown(e) ==
    /\ UNCHANGED ambientVars
    /\ CompletesKonami(World, e.key) => EggRoom(World)
    /\ SetWorld(konamiKeyDown(documentKeyDown(World, e), e.key))
    /\ heard' = Spelled(heard, e.key)
    /\ ev' = Event("keydown", documentKeyNav(e), <<e.key>>, NoResult)
    /\ UNCHANGED sessionVars
    /\ UNCHANGED inputGhosts
    /\ UNCHANGED hackGhosts

\* the timeout of activateKonamiCode fires
RainbowTimer ==
    /\ UNCHANGED ambientVars
    /\ UNCHANGED heard
    /\ rainbowTimers > 0
    /\ SetWorld(rainbowTimeout(World))
    /\ ev' = Event("rainbowTimer", "none", <<>>, NoResult)
    /\ UNCHANGED sessionVars
    /\ UNCHANGED inputGhosts
    /\ UNCHANGED hackGhosts

\* a click on the title of a blog entry, or any other call of
\* window.toggleBlogPost(postId)
ToggleBlogPost(postId) ==
    LET r == toggleBlogPost(World, postId)
    IN  /\ UNCHANGED ambientVars
        /\ UNCHANGED heard
        /\ SetWorld(r.w)
        /\ ev' = Event("toggleBlogPost", "none", <<postId>>, r.res)
        /\ UNCHANGED sessionVars
        /\ UNCHANGED inputGhosts
        /\ UNCHANGED hackGhosts

\* the timeout that is due first fires.  Message i of a call is always due
\* before message i of a later call, so it belongs to the oldest hack
\* command that has not had it.
HackTimer ==
    LET i == Head(hackTimers)
        waiting == {n \in 1..Len(hackLog) : Len(hackLog[n]) < i}
        n == CHOOSE m \in waiting : \A k \in waiting : m <= k
    IN  /\ UNCHANGED ambientVars
        /\ UNCHANGED heard
        /\ hackTimers # <<>>
        /\ SetWorld([displayOutput(World, HackMessages[i]) EXCEPT
                        !.hackTimers = Tail(hackTimers)])
        /\ hackLog' = [hackLog EXCEPT ![n] = Append(@, HackMessages[i])]
        /\ ev' = Event("timer", "none", HackMessages[i], NoResult)
        /\ UNCHANGED sessionVars
        /\ UNCHANGED inputGhosts

\* navigateToSection(id) called on its own
CallNavigate(id) ==
    /\ UNCHANGED ambientVars
    /\ UNCHANGED heard
    /\ SetWorld(navigateToSection(World, id))
    /\ ev' = Event("navigateToSection", id, <<>>, NoResult)
    /\ UNCHANGED sessionVars
    /\ UNCHANGED inputGhosts
    /\ UNCHANGED hackGhosts

\* window.executeCommand(line) called on its own
CallExecuteCommand(line) ==
    LET r == executeCommand(World, line)
    IN  /\ UNCHANGED ambientVars
        /\ UNCHANGED heard
        /\ CmdOf(line) = <<"hack">> => PendingHacks(hackTimers) < MaxPendingHacks
        /\ SetWorld(r.w)
        /\ hackLog' = IF CmdOf(line) = <<"hack">>
                      THEN Append(hackLog, <<>>) ELSE hackLog
        /\ ev' = Event("executeCommand", "none", line, r.res)
        /\ UNCHANGED sessionVars
        /\ UNCHANGED inputGhosts

SetPage(page) ==
    /\ darkClass' = page.darkClass
    /\ storedTheme' = page.storedTheme

SetLoad(l) ==
    /\ textContent' = l.textContent
    /\ typeIndex' = l.typeIndex
    /\ loadTimers' = l.loadTimers
    /\ hiddenLines' = l.hiddenLines

SetReading(r) ==
    /\ ticking' = r.ticking
    /\ frames' = r.frames
    /\ scrollY' = r.scrollY
    /\ progress' = r.progress

pageVars == <<darkClass, storedTheme>>
progressVars == <<ticking, frames, scrollY, progress>>
loadVars == <<textContent, typeIndex, loadTimers, hiddenLines>>

\* what no listener of the site utilities and no timeout of the load
\* animation touches
shellVars == <<worldVars, sessionVars, inputGhosts, hackGhosts, heard>>

\* click on .theme-toggle
ThemeToggleClick ==
    /\ SetPage(themeToggleClick(Page))
    /\ ev' = Event("themeToggle", "none", <<>>, NoResult)
    /\ UNCHANGED loadVars
    /\ UNCHANGED progressVars
    /\ UNCHANGED shellVars

\* the colour-scheme preference of the operating system changes
PrefersDarkChange(matches) ==
    /\ SetPage(prefersDarkChange(Page, matches))
    /\ ev' = Event("prefersDark", "none", <<IF matches THEN "dark" ELSE "light">>, NoResult)
    /\ UNCHANGED loadVars
    /\ UNCHANGED progressVars
    /\ UNCHANGED shellVars

\* the page is scrolled to position y and the scroll event is delivered
Scroll(y) ==
    /\ y # scrollY
    /\ SetReading(scrollListener([Reading EXCEPT !.scrollY = y]))
    /\ ev' = Event("scroll", "none", <<IF ticking THEN "ticking" ELSE "idle">>, NoResult)
    /\ UNCHANGED pageVars
    /\ UNCHANGED loadVars
    /\ UNCHANGED shellVars

\* the browser runs an animation frame callback
AnimationFrame ==
    /\ frames > 0
    /\ SetReading(updateProgress(Reading))
    /\ ev' = Event("frame", "none", <<>>, NoResult)
    /\ UNCHANGED pageVars
    /\ UNCHANGED loadVars
    /\ UNCHANGED shellVars

\* the timeout at the head of the queue runs type()
TypeTick ==
    /\ loadTimers # <<>>
    /\ Head(loadTimers).fn = "type"
    /\ SetLoad(type(Load))
    /\ ev' = Event("type", "none", <<>>, NoResult)
    /\ UNCHANGED pageVars
    /\ UNCHANGED progressVars
    /\ UNCHANGED shellVars

\* the 200 ms timeout after the last character
RevealTimer ==
    /\ loadTimers # <<>>
    /\ Head(loadTimers).fn = "reveal"
    /\ SetLoad(reveal(Load))
    /\ ev' = Event("reveal", "none", <<>>, NoResult)
    /\ UNCHANGED pageVars
    /\ UNCHANGED progressVars
    /\ UNCHANGED shellVars

\* the timeout of an output line
ShowTimer ==
    /\ loadTimers # <<>>
    /\ Head(loadTimers).fn = "show"
    /\ SetLoad(show(Load))
    /\ ev' = Event("show", "none", <<>>, NoResult)
    /\ UNCHANGED pageVars
    /\ UNCHANGED progressVars
    /\ UNCHANGED shellVars

Next ==
    \/ \E line \in TypedLines : TypeInput(line)
    \/ KeyEnter
    \/ KeyArrowUp
    \/ KeyArrowDown
    \/ \E t \in NavLinks : NavLinkClick(t)
    \/ \E t \in AnchorTargets : AnchorClick(t)
    \/ \E a \in QuickActions : QuickButtonClick(a)
    \/ \E e \in DocumentKeys : DocumentKeyDown(e)

Spec == Init /\ [][Next]_vars

\* the two functions called on their own, on every input
NextCalls ==
    \/ \E id \in Ids : CallNavigate(id)
    \/ \E line \in CallLines : CallExecuteCommand(line)

SpecCalls == Init /\ [][NextCalls]_vars

\* the input field alone: typing, Enter, the arrow keys, and the timeouts
NextShell ==
    \/ \E line \in ShellLines : TypeInput(line)
    \/ KeyEnter
    \/ KeyArrowUp
    \/ KeyArrowDown

SpecShell == Init /\ [][NextShell]_vars

CtrlL == [key |-> "l", ctrlKey |-> TRUE, metaKey |-> FALSE, altKey |-> FALSE]

\* every kind of event together, the hack timeouts included, on few inputs
NextEvents ==
    \/ \E line \in EventLines : TypeInput(line)
    \/ KeyEnter
    \/ KeyArrowUp
    \/ KeyArrowDown
    \/ NavLinkClick("contact")
    \/ DocumentKeyDown(CtrlL)
    \/ HackTimer

SpecEvents == Init /\ [][NextEvents]_vars

\* lines typed while the hack timeouts run
HackLines == { <<"hack">>, <<"clear">> }

\* the hack command, the commands entered while its timeouts are pending,
\* and the timeouts.  A timeout that is due fires: the event loop runs it
\* once the handler in progress has returned.
NextHack ==
    \/ \E line \in HackLines : TypeInput(line)
    \/ KeyEnter
    \/ HackTimer

SpecHack == Init /\ [][NextHack]_vars /\ WF_vars(HackTimer)

\* lines typed when the three ways of clearing the transcript are compared
ClearLines == { <<"ls">>, <<"clear">>, <<"cls">> }

\* the clear command, its alias and the Ctrl+L shortcut
NextClear ==
    \/ \E line \in ClearLines : TypeInput(line)
    \/ KeyEnter
    \/ DocumentKeyDown(CtrlL)

SpecClear == Init /\ [][NextClear]_vars

\* the ids window.toggleBlogPost is called with; "nowhere" is the data-post
\* of no entry and no key of blogPosts
PostIds == BlogEntries \cup {"nowhere"}

\* the mouse alone: the links, the quick-access buttons, the blog titles
NextPage ==
    \/ \E t \in NavLinks : NavLinkClick(t)
    \/ \E t \in AnchorTargets : AnchorClick(t)
    \/ \E a \in QuickActions : QuickButtonClick(a)
    \/ \E p \in PostIds : ToggleBlogPost(p)

SpecPage == Init /\ [][NextPage]_vars

\* keys pressed while the focus is outside the input field
KonamiEvents ==
    { [key |-> k, ctrlKey |-> FALSE, metaKey |-> FALSE, altKey |-> FALSE] :
        k \in {"ArrowUp", "ArrowDown", "ArrowLeft", "ArrowRight", "b", "a"} }

\* the Konami listener, reached from inside and from outside the input
\* field, and the timeout of the easter egg
NextKonami ==
    \/ \E e \in KonamiEvents : DocumentKeyDown(e)
    \/ KeyArrowUp
    \/ KeyArrowDown
    \/ RainbowTimer

SpecKonami == Init /\ [][NextKonami]_vars

\* lines that stand in the input field at once (pasted, or typed before)
PastedLines == { <<"cd", " ", "about">> }

\* the input field under the keyboard: character keys one by one, whole
\* lines, Enter and the arrow keys
NextTyping ==
    \/ \E k \in KeyChars : KeyChar(k)
    \/ \E line \in PastedLines : TypeInput(line)
    \/ KeyEnter
    \/ KeyArrowUp
    \/ KeyArrowDown

SpecTyping == Init /\ [][NextTyping]_vars

\* the keyboard while the focus is outside the input field, on a page
\* whose blog entries are opened and closed with the mouse
NextKeys ==
    \/ \E e \in DocumentKeys : DocumentKeyDown(e)
    \/ \E a \in QuickActions : QuickButtonClick(a)
    \/ \E p \in BlogEntries : ToggleBlogPost(p)

SpecKeys == Init /\ [][NextKeys]_vars

\* the mouse and the operating system: the links, the blog titles, the
\* theme toggle, the colour-scheme preference
NextSite ==
    \/ NextPage
    \/ ThemeToggleClick
    \/ \E matches \in BOOLEAN : PrefersDarkChange(matches)

SpecSite == Init /\ [][NextSite]_vars

\* the page while it loads: the timeouts of the animation and the clicks
\* that come meanwhile.  A timeout that is due fires.
NextLoad ==
    \/ TypeTick
    \/ RevealTimer
    \/ ShowTimer
    \/ \E t \in NavLinks : NavLinkClick(t)
    \/ ThemeToggleClick
    \/ \E matches \in BOOLEAN : PrefersDarkChange(matches)

SpecLoad ==
    Init /\ [][NextLoad]_vars
         /\ WF_vars(TypeTick) /\ WF_vars(RevealTimer) /\ WF_vars(ShowTimer)

\* a post being read: scroll events and animation frames in any order,
\* with clicks on the nav links and on the theme toggle in between
NextScroll ==
    \/ \E y \in 0..MaxScroll : Scroll(y)
    \/ AnimationFrame
    \/ \E t \in NavLinks : NavLinkClick(t)
    \/ ThemeToggleClick

SpecScroll == Init /\ [][NextScroll]_vars

----------------------------------------------------------------------------
(* Properties *)

\* C1: after navigateToSection(id) for one of the five section ids whose
\* element exists, the section id is the only one bearing the active
\* marker, the highlighted nav links are exactly those whose href is
\* '#'+id, and currentSection is id.
C1_NavigateActivatesTarget ==
    (ev.id \in Sections /\ getElementById(ev.id)) =>
        /\ activeSections = {ev.id}
        /\ activeLinks = {l \in NavLinks : l = ev.id}
        /\ currentSection = ev.id

\* a quick-access button has moved the page away from the section of a
\* cd command
C1_Witness ==
    /\ ev.op = "quickButton"
    /\ ev.id = "projects"
    /\ activeSections = {"projects"}
    /\ Len(commandHistory) > 0

\* C2: navigateToSection(id) with an id no element carries changes neither
\* the sections bearing the active marker, nor the highlighted nav links,
\* nor currentSection.
C2_AbsentIdIsNoOp ==
    [][(ev'.id # "none" /\ ~getElementById(ev'.id)) =>
            UNCHANGED <<activeSections, activeLinks, currentSection>>]_vars

\* C3: executeCommand completes normally and returns a string for every
\* input.
C3_ExecuteCommandReturnsString ==
    (ev.op = "executeCommand") => (~ev.res.threw /\ ev.res.type = "string")

\* C4: an input whose first token, lower-cased, is a registered name
\* invokes that handler; every other input returns the 'Command not found'
\* message naming the token and changes nothing.
C4_LookupClosedOverRegistry ==
    [][(ev'.op = "executeCommand") =>
        LET cmd == CmdOf(ev'.input)
        IN  IF Len(cmd) = 1 /\ cmd[1] \in CommandNames
            THEN /\ ev'.res = invoke(cmd[1], World, ArgsOf(ev'.input)).res
                 /\ World' = invoke(cmd[1], World, ArgsOf(ev'.input)).w
            ELSE /\ ev'.res = StringResult(NotFound(cmd))
                 /\ UNCHANGED worldVars]_vars

\* C5: after 'clear' or 'cls' is entered with Enter the transcript holds no
\* command-generated line, and the boot lines are all still there.
C5_ClearLeavesNoCommandLine ==
    (ev.op = "Enter" /\ CmdOf(ev.input) \in {<<"clear">>, <<"cls">>}) =>
        /\ SelectSeq(transcript, IsCommandOutput) = <<>>
        /\ SelectSeq(transcript, IsBootLine) = BootLines

\* the arguments of a line as typed, before toLowerCase
RawArgsOf(input) == Tail(split(trim(input)))

IsSectionName(token) == Len(token) = 1 /\ token[1] \in Sections

\* C6 as stated: 'cd ' + s for a section name s navigates to s and returns
\* a string containing s; every other argument returns a string containing
\* 'No such directory' and leaves the section state unchanged.
C6_CdOnArgumentAsTyped ==
    [][(ev'.op = "executeCommand" /\ CmdOf(ev'.input) = <<"cd">>) =>
        LET a == RawArgsOf(ev'.input)
        IN  /\ ~ev'.res.threw /\ ev'.res.type = "string"
            /\ IF a # <<>> /\ IsSectionName(a[1])
               THEN /\ currentSection' = a[1][1]
                    /\ includes(ev'.res.val, a[1])
               ELSE /\ includes(ev'.res.val, NoSuchDirectory)
                    /\ UNCHANGED <<currentSection, activeSections, activeLinks>>]_vars

\* C6, amended: an argument whose lower-cased form is a section name s
\* makes cd navigate to s and return a string containing s; every other
\* argument (a missing or empty one too) returns a string containing
\* 'No such directory' and leaves currentSection, the active section and
\* the highlighted nav links unchanged.
C6_CdOnLowerCasedArgument ==
    [][(ev'.op = "executeCommand" /\ CmdOf(ev'.input) = <<"cd">>) =>
        LET a == ArgsOf(ev'.input)
        IN  /\ ~ev'.res.threw /\ ev'.res.type = "string"
            /\ IF a # <<>> /\ IsSectionName(a[1])
               THEN /\ currentSection' = a[1][1]
                    /\ activeSections' = {a[1][1]}
                    /\ includes(ev'.res.val, a[1])
               ELSE /\ includes(ev'.res.val, NoSuchDirectory)
                    /\ UNCHANGED <<currentSection, activeSections, activeLinks>>]_vars

\* 'cd About' has been executed and the page shows about
C6_Witness ==
    /\ ev.op = "executeCommand"
    /\ ev.input = <<"cd", " ", "About">>
    /\ currentSection = "about"
    /\ includes(ev.res.val, <<"about">>)

\* C7: with n >= 1 commands entered, k <= n presses of ArrowUp show
\* command n-k+1 and more presses change nothing; from the oldest entry,
\* ArrowDown shows commands 2..n in order, and the next ArrowDown empties
\* the field and puts historyIndex at n.
C7_HistoryRecall ==
    LET n == Len(entered)
    IN  (recall.ok /\ n >= 1) =>
        /\ (recall.ups >= 1 /\ recall.downs = 0) =>
              /\ inputValue = entered[n - recall.ups + 1]
              /\ historyIndex = n - recall.ups
        /\ (recall.downs \in 1..(n - 1)) =>
              inputValue = entered[recall.downs + 1]
        /\ (recall.downs = n) =>
              (inputValue = <<>> /\ historyIndex = n)

\* C8: Enter on a non-empty trimmed input appends exactly that input to
\* commandHistory, sets historyIndex to the new length and empties the
\* input field, whatever the command.
C8_EnterAppendsAndResets ==
    [][(ev'.op = "Enter" /\ ev'.input # <<>>) =>
        /\ commandHistory' = Append(commandHistory, ev'.input)
        /\ historyIndex' = Len(commandHistory')
        /\ inputValue' = <<>>]_vars

HistoryIndexInRange == historyIndex \in (-1)..Len(commandHistory)

\* C9 as stated: historyIndex starts at -1, stays within -1..length, and is
\* within 0..length once any Enter or ArrowDown has been handled.
C9_ClampedAfterAnyEnterOrDown ==
    /\ (ev.op = "init") => (historyIndex = -1)
    /\ HistoryIndexInRange
    /\ (seen.enter \/ seen.down) => historyIndex \in 0..Len(commandHistory)

\* C9, amended: historyIndex starts at -1, stays within -1..length, and is
\* within 0..length once an Enter has appended an entry to commandHistory
\* or an ArrowDown has been handled.
C9_ClampedAfterPushOrDown ==
    /\ (ev.op = "init") => (historyIndex = -1)
    /\ HistoryIndexInRange
    /\ (commandHistory # <<>> \/ seen.down) =>
           historyIndex \in 0..Len(commandHistory)

\* two commands are in the history and ArrowUp has been pressed down to
\* the oldest one
C9_Witness ==
    /\ Len(commandHistory) >= 2
    /\ ev.op = "ArrowUp"
    /\ historyIndex = 0
    /\ inputValue = commandHistory[1]

\* C10: the history of a state is a prefix of the history of every later
\* state.
C10_HistoryAppendOnly ==
    [][IsPrefix(commandHistory, commandHistory')]_vars

\* 'cd about' and 'clear' are in the history, in that order, the oldest
\* entry has been recalled and Ctrl+L has been pressed
C10_Witness ==
    /\ Len(commandHistory) >= 2
    /\ commandHistory[1] = <<"cd", " ", "about">>
    /\ commandHistory[2] = <<"clear">>
    /\ historyIndex = 0
    /\ ev.op = "keydown"
    /\ ev.input = <<"l">>

\* C11: whatever navigation triggers have been handled (nav-link clicks,
\* anchor clicks, quick-access buttons, cd commands, Escape, digit keys),
\* at most one section bears the active marker.
C11_AtMostOneActive == Cardinality(activeSections) <= 1

\* the digit key 4 has been pressed after a cd command was entered, and
\* blog is the one active section
C11_Witness ==
    /\ ev.op = "keydown"
    /\ ev.id = "blog"
    /\ activeSections = {"blog"}
    /\ \E i \in 1..Len(entered) : CmdOf(entered[i]) = <<"cd">>

\* C12: 'theme amber' sets the three custom properties to the amber
\* palette; 'theme' with no argument or with a name other than default,
\* amber and ice sets them to the default palette.
C12_ThemeSetsPalette ==
    (ev.op = "executeCommand" /\ CmdOf(ev.input) = <<"theme">>) =>
        LET a == ArgsOf(ev.input)
        IN  /\ (a # <<>> /\ a[1] = <<"amber">>) => cssProps = themes["amber"]
            /\ (a = <<>> \/ ~(Len(a[1]) = 1 /\ a[1][1] \in ThemeNames)) =>
                   cssProps = themes["default"]

\* the key of the keydown event handled last, "none" for other events
KeyHeard(e) ==
    IF e.op = "keydown" THEN e.input[1]
    ELSE IF e.op \in {"Enter", "ArrowUp", "ArrowDown"} THEN e.op
    ELSE "none"

\* C13: a key equal to the expected key of the sequence advances the
\* progress by one; the tenth such key activates the easter egg exactly
\* once (one message, the animation, one timeout) and puts the progress
\* back to zero; a key that differs from the expected key puts the
\* progress to zero and activates nothing.
C13_KonamiWatcher ==
    [][(KeyHeard(ev') # "none") =>
        IF KeyHeard(ev') = konamiCode[konamiIndex + 1]
        THEN IF konamiIndex + 1 = 10
             THEN /\ konamiIndex' = 0
                  /\ transcript' = Append(transcript,
                        [cls |-> "terminal-output-line", text |-> KonamiText])
                  /\ bodyAnimation' = RainbowAnimation
                  /\ rainbowTimers' = rainbowTimers + 1
             ELSE /\ konamiIndex' = konamiIndex + 1
                  /\ UNCHANGED <<transcript, bodyAnimation, rainbowTimers>>
        ELSE /\ konamiIndex' = 0
             /\ UNCHANGED <<bodyAnimation, rainbowTimers>>
             /\ Len(SelectSeq(transcript', IsKonamiLine))
                    <= Len(SelectSeq(transcript, IsKonamiLine))]_vars

\* the tenth key has just completed the sequence for the second time
C13_Witness ==
    /\ ev.op = "keydown"
    /\ ev.input = <<"a">>
    /\ konamiIndex = 0
    /\ Len(SelectSeq(transcript, IsKonamiLine)) = 2
    /\ bodyAnimation = RainbowAnimation

OutputLine(text) == [cls |-> "terminal-output-line", text |-> text]

\* C14: Enter on 'hack' appends the placeholder line; every timeout
\* appends its message at the end of the transcript; the messages
\* delivered for one hack command are at every moment the first ones of
\* the five fixed messages, in their order; and every hack command entered
\* has in the end had all five delivered, whatever is entered meanwhile.
C14_HackDeliversFiveMessages ==
    /\ [][(ev'.op = "Enter" /\ CmdOf(ev'.input) = <<"hack">>) =>
            /\ transcript' = Append(transcript, OutputLine(HackText))
            /\ hackLog' = Append(hackLog, <<>>)]_vars
    /\ [][(ev'.op = "timer") =>
            transcript' = Append(transcript, OutputLine(ev'.input))]_vars
    /\ [](\A n \in 1..Len(hackLog) : IsPrefix(hackLog[n], HackMessages))
    /\ \A n \in 1..MaxHistory :
          (Len(hackLog) >= n) ~> (Len(hackLog) >= n /\ hackLog[n] = HackMessages)

\* 'hack' was entered, 'clear' was entered while messages were pending,
\* and the five messages have all been delivered: the transcript holds the
\* empty line of clear and the messages that came after it
C14_Witness ==
    /\ entered = << <<"hack">>, <<"clear">> >>
    /\ hackLog = <<HackMessages>>
    /\ ev.op = "timer"
    /\ Len(SelectSeq(transcript, IsCommandOutput)) \in 3..5

\* the element an operation looks up is not in the page
TargetAbsent(e) ==
    \/ /\ e.op \in {"navLink", "anchor", "quickButton", "navigateToSection"}
       /\ ~getElementById(e.id)
    \/ /\ e.op = "toggleBlogPost"
       /\ (e.input[1] \notin BlogEntries \/ e.input[1] \notin BlogPosts)

\* C15: an operation whose element is absent completes without an
\* exception and changes nothing; toggleBlogPost(postId) for an id with no
\* entry element or no entry in blogPosts is such a no-op.
C15_AbsentElementIsNoOp ==
    [][TargetAbsent(ev') => (~ev'.res.threw /\ UNCHANGED worldVars)]_vars

\* the four marks of an expanded entry
EntryMarked(post)   == "expanded" \in post.entryClasses
ContentMarked(post) == "expanded" \in post.contentClasses
MarkupInjected(post) == post.innerHTML # <<>>
ExcerptHidden(post) == post.excerptDisplay = "none"

\* C20: for a post of blogPosts the four marks (expanded on the entry,
\* expanded on the content block, injected markup, hidden excerpt) hold
\* together or fail together in every state; a toggle of an expanded post
\* collapses it, empties the markup and shows the excerpt, a toggle of a
\* collapsed post injects the post's content block and hides the excerpt
\* (so two toggles in a row give the collapsed state again); and a toggle
\* leaves every other post as it was.
C20_ToggleAlternates ==
    /\ [](\A p \in BlogPosts :
            /\ EntryMarked(posts[p]) <=> ContentMarked(posts[p])
            /\ ContentMarked(posts[p]) <=> MarkupInjected(posts[p])
            /\ MarkupInjected(posts[p]) <=> ExcerptHidden(posts[p]))
    /\ [][(ev'.op = "toggleBlogPost" /\ ev'.input[1] \in BlogPosts) =>
            LET p == ev'.input[1]
            IN  /\ ~ev'.res.threw
                /\ IF ContentMarked(posts[p])
                   THEN /\ ~EntryMarked(posts'[p])
                        /\ ~ContentMarked(posts'[p])
                        /\ "collapsed" \in posts'[p].contentClasses
                        /\ posts'[p].innerHTML = <<>>
                        /\ posts'[p].excerptDisplay = "block"
                   ELSE /\ EntryMarked(posts'[p])
                        /\ ContentMarked(posts'[p])
                        /\ "collapsed" \notin posts'[p].contentClasses
                        /\ posts'[p].innerHTML = PostMarkup(blogPosts[p].content)
                        /\ posts'[p].excerptDisplay = "none"
                /\ \A q \in BlogEntries \ {p} : posts'[q] = posts[q]]_vars

\* one post has been expanded and collapsed again, and a second post has
\* just been expanded
C20_Witness ==
    /\ ev.op = "toggleBlogPost"
    /\ ev.input = <<"performant-web">>
    /\ ContentMarked(posts["performant-web"])
    /\ ExcerptHidden(posts["performant-web"])
    /\ posts["readable-code"].excerptDisplay = "block"
    /\ ~ContentMarked(posts["readable-code"])
    /\ posts["simplicity-design"] = CollapsedPost

\* the event clears the transcript: Enter on clear or cls, or Ctrl+L
IsClearing(e) ==
    \/ e.op = "Enter" /\ CmdOf(e.input) \in {<<"clear">>, <<"cls">>}
    \/ e.op = "keydown" /\ e.input = <<"l">>

\* C16: the clear command, cls and Ctrl+L each leave, of the transcript
\* they find, exactly the boot lines and no command-generated line.
C16_ClearingsAgree ==
    [][IsClearing(ev') => transcript' = SelectSeq(transcript, IsBootLine)]_vars

IsWord(a) == a \notin Whitespace

\* the words of a line: its maximal runs of non-whitespace characters
Words(s) == SelectSeq(s, IsWord)

\* the words joined again with one space between neighbours
RECURSIVE SingleSpaced(_)
SingleSpaced(words) ==
    IF Len(words) <= 1 THEN words
    ELSE <<words[1], " ">> \o SingleSpaced(Tail(words))

\* C17: executeCommand treats a line whose words are separated by any
\* runs of whitespace like the line with the same words separated by single
\* spaces: the same result and the same effect.
C17_SplitsOnWhitespace ==
    [][(ev'.op = "executeCommand") =>
        LET r == executeCommand(World, SingleSpaced(Words(ev'.input)))
        IN  ev'.res = r.res /\ World' = r.w]_vars

\* the id the event has passed to navigateToSection, "none" if it has not
\* called it; cd reports the id it has passed in its result
PassedId(e) ==
    IF e.op \in {"navLink", "anchor", "quickButton", "keydown"} THEN e.id
    ELSE IF /\ e.op \in {"Enter", "executeCommand"}
            /\ ~e.res.threw
            /\ Len(e.res.val) >= 2
            /\ e.res.val[1] = "Navigating to "
    THEN e.res.val[2]
    ELSE "none"

\* C18: every id an event handler passes to navigateToSection is one of
\* the five section ids, and currentSection is one of them in every state.
C18_CallersPassSectionIds ==
    /\ PassedId(ev) # "none" => PassedId(ev) \in Sections
    /\ currentSection \in Sections

\* a cd command has passed 'about', then an anchor has passed 'contact'
C18_Witness ==
    /\ ev.op = "anchor"
    /\ PassedId(ev) = "contact"
    /\ currentSection = "contact"
    /\ \E i \in 1..Len(commandHistory) : commandHistory[i] = <<"cd", " ", "about">>

IsMatrixLine(line) == CmdOf(line) = <<"matrix">>

\* C19: the canvas, visible at first, is hidden exactly when the number of
\* matrix commands entered is odd, and every matrix command returns the
\* same confirmation string.
C19_MatrixParity ==
    /\ (canvasDisplay = "none") <=>
           (Len(SelectSeq(commandHistory, IsMatrixLine)) % 2 = 1)
    /\ (ev.op = "Enter" /\ ev.input # <<>> /\ IsMatrixLine(ev.input)) =>
           ev.res = StringResult(MatrixText)

\* matrix has been entered twice and the canvas is visible again
C19_Witness ==
    /\ Len(SelectSeq(commandHistory, IsMatrixLine)) = 2
    /\ canvasDisplay = "block"
    /\ ev.op = "Enter"
    /\ ev.res.val = MatrixText

\* C21: after every click on the theme toggle the stored theme flag is
\* 'dark' exactly when the document has the dark class, and once a theme
\* flag is stored a change of the colour-scheme preference of the operating
\* system leaves the dark class as it was.
C21_DarkModePreference ==
    /\ [](ev.op = "themeToggle" =>
             /\ storedTheme \in {"dark", "light"}
             /\ storedTheme = "dark" <=> darkClass)
    /\ [][(storedTheme # "absent" /\ ev'.op = "prefersDark") =>
             darkClass' = darkClass]_vars

\* the system preference turns dark after the user chose light
C21_Witness ==
    /\ ev.op = "prefersDark"
    /\ ev.input = <<"dark">>
    /\ storedTheme = "light"
    /\ ~darkClass

\* the smallest index of a line that is still hidden
FirstHidden == CHOOSE i \in hiddenLines : \A j \in hiddenLines : i <= j

\* C22: the displayed greeting is always a prefix of the greeting string
\* and grows by exactly one character per tick until it is complete; no
\* output line is revealed before the greeting is complete; the lines are
\* revealed in index order, and eventually all of them are.
C22_LoadAnimationOrder ==
    /\ [](IsPrefix(textContent, dataText))
    /\ [][(ev'.op = "type" /\ textContent # dataText) =>
             Len(textContent') = Len(textContent) + 1]_vars
    /\ [][textContent' # textContent => ev'.op = "type"]_vars
    /\ [](hiddenLines # outputLines => textContent = dataText)
    /\ [][hiddenLines' # hiddenLines =>
             hiddenLines' = hiddenLines \ {FirstHidden}]_vars
    /\ <>(hiddenLines = {})

\* the last line has just been revealed, after the others
C22_Witness ==
    /\ ev.op = "show"
    /\ hiddenLines = {}
    /\ loadTimers = <<>>
    /\ textContent = dataText

\* the section a digit key stands for
ShortcutSection(key) ==
    CASE key = "1" -> "home" [] key = "2" -> "about" [] key = "3" -> "projects"
      [] key = "4" -> "blog" [] key = "5" -> "contact" [] OTHER -> "none"

Shown(id) ==
    /\ currentSection' = id
    /\ activeSections' = {id}
    /\ activeLinks' = {id}

\* C23: a keydown of Escape navigates to home; a keydown of a digit 1..5
\* with none of Ctrl, Meta, Alt held navigates to home, about, projects,
\* blog, contact respectively; a digit with one of them held navigates
\* nowhere.
C23_KeyboardShortcuts ==
    [][\A e \in DocumentKeys : DocumentKeyDown(e) =>
          LET held == e.ctrlKey \/ e.metaKey \/ e.altKey
              digit == e.key \in {"1", "2", "3", "4", "5"}
          IN  /\ e.key = "Escape" => Shown("home")
              /\ (digit /\ ~held) => Shown(ShortcutSection(e.key))
              /\ (digit /\ held) =>
                    UNCHANGED <<currentSection, activeSections, activeLinks>>]_vars

\* Alt+4 has been pressed on the projects section, which stays
C23_Witness ==
    /\ ev.op = "keydown"
    /\ ev.input = <<"4">>
    /\ ev.id = "none"
    /\ currentSection = "projects"
    /\ activeSections = {"projects"}

\* C24: Enter on an empty or whitespace-only input leaves commandHistory,
\* historyIndex, the transcript, the input field and currentSection as
\* they were, and ArrowUp with historyIndex <= 0 leaves historyIndex and
\* the input field as they were.
C24_BlankEnterAndTopArrowUp ==
    [][/\ (ev'.op = "Enter" /\ trim(inputValue) = <<>>) =>
             UNCHANGED <<commandHistory, historyIndex, transcript,
                         inputValue, currentSection>>
       /\ (ev'.op = "ArrowUp" /\ historyIndex <= 0) =>
             UNCHANGED <<historyIndex, inputValue>>]_vars

\* Enter has been pressed on a single space, after a command that left a
\* line in the transcript
C24_Witness ==
    /\ ev.op = "Enter"
    /\ ev.input = <<>>
    /\ inputValue = <<" ">>
    /\ Len(commandHistory) >= 1
    /\ historyIndex = Len(commandHistory)
    /\ Len(transcript) > Len(BootLines)

\* C25: in every state after the first navigation the section named by
\* currentSection is the one bearing the active marker and the highlighted
\* nav link is the one pointing to it, also after a navigation to an id
\* that no element carries.
C25_SectionStateConsistent ==
    ev.op # "init" =>
        /\ activeSections = {currentSection}
        /\ activeLinks = {currentSection}

\* C26: while the user types into the terminal input, currentSection and
\* the active section change only when Enter dispatches a cd command; the
\* keydown of a letter, a digit or a space, of ArrowUp and of ArrowDown
\* leaves them as they are.
C26_TypingKeepsSection ==
    [][(currentSection' # currentSection \/ activeSections' # activeSections) =>
          (ev'.op = "Enter" /\ CmdOf(toLowerCase(ev'.input)) = <<"cd">>)]_vars

\* C27: whenever the ten most recent keys are the keys of konamiCode in
\* order, the easter egg is activated at the tenth key, whatever keys came
\* before them; and the progress cursor is within 0..9 between events.
C27_KonamiSuffix ==
    /\ konamiIndex \in 0..(Len(konamiCode) - 1)
    /\ (ev.op \in {"keydown", "key", "ArrowUp", "ArrowDown"} /\
          heard = Len(konamiCode)) =>
            /\ bodyAnimation = RainbowAnimation
            /\ IsKonamiLine(transcript[Len(transcript)])

\* C28: every activation of the easter egg keeps the rainbow animation on
\* the page until the timeout that this activation started has fired: while
\* a timeout of an activation is pending, the animation is on, also when a
\* second activation came before the first timeout fired.
C28_RainbowUntilOwnTimeout ==
    rainbowTimers > 0 => bodyAnimation = RainbowAnimation

\* the field has just been set to the history entry at historyIndex
RecalledEntry ==
    /\ historyIndex' \in 0..(Len(commandHistory') - 1)
    /\ inputValue' = commandHistory'[historyIndex' + 1]

\* C29: whenever ArrowUp or ArrowDown writes a recalled entry into the
\* input field, the index used is within 0..length(commandHistory)-1, so
\* the field is set to an existing history entry or to the empty string and
\* never to an undefined value, after any sequence of Enter and arrow
\* events.
C29_RecallInsideHistory ==
    [][/\ ev'.op = "ArrowUp" =>
             \/ RecalledEntry
             \/ UNCHANGED <<historyIndex, inputValue>>
       /\ ev'.op = "ArrowDown" =>
             \/ RecalledEntry
             \/ inputValue' = <<>> /\ historyIndex' = Len(commandHistory')
       /\ ev'.op \in {"ArrowUp", "ArrowDown"} =>
             inputValue' # <<"undefined">>]_vars

\* ArrowDown has brought back the newest of two entries
C29_Witness ==
    /\ ev.op = "ArrowDown"
    /\ Len(commandHistory) = 2
    /\ historyIndex = 1
    /\ inputValue = commandHistory[2]

\* C30: for every id and every state, navigateToSection(id) called twice
\* in a row leaves the same active section, highlighted links and
\* currentSection as one call.
C30_NavigateIdempotent ==
    /\ [](\A id \in Ids :
            LET once == navigateToSection(World, id)
                twice == navigateToSection(once, id)
            IN  /\ twice.activeSections = once.activeSections
                /\ twice.activeLinks = once.activeLinks
                /\ twice.currentSection = once.currentSection)
    /\ [][(ev.op = "navigateToSection" /\ ev'.op = "navigateToSection" /\
           ev'.id = ev.id) =>
             UNCHANGED <<activeSections, activeLinks, currentSection>>]_vars

\* navigateToSection has run with an id no element carries, from where a
\* second call starts with no section active
C30_Witness ==
    /\ ev.op = "navigateToSection"
    /\ ev.id = "nowhere"
    /\ activeSections = {}
    /\ currentSection = "blog"

\* C31: in any interleaving of scroll events and animation frames at most
\* one progress update is pending; ticking is true exactly while an update
\* is scheduled and has not run; a scroll event that arrives while one is
\* pending schedules nothing.
C31_ProgressThrottle ==
    /\ [](frames <= 1 /\ (ticking <=> frames = 1))
    /\ [][(ev'.op = "scroll" /\ frames > 0) =>
             UNCHANGED <<frames, ticking>>]_vars
    /\ [][(ev'.op = "scroll" /\ frames = 0) => frames' = 1]_vars

\* a second scroll event has arrived while the update of the first is
\* pending, after an earlier update has run
C31_Witness ==
    /\ ev.op = "scroll"
    /\ ev.input = <<"ticking">>
    /\ ticking
    /\ frames = 1
    /\ progress.set
    /\ progress.num # scrollY

====
